---- MODULE Spec2Model ----
(***************************************************************************)
(* Model of the jepsh runtime core:                                        *)
(*   - the reactive store of runtime/src/core/atom.ts (Atom, AtomEffect,   *)
(*     dependency tracking, the microtask-batched flush);                  *)
(*   - the tree reconciler of runtime/src/dom/diff.ts and the patch        *)
(*     applier of runtime/src/dom/WebShellRenderer.ts.                     *)
(*                                                                         *)
(* The store is checked under Spec, the reconciler under DiffSpec.         *)
(***************************************************************************)
EXTENDS Integers, Sequences, FiniteSets, TLC

VARIABLES
    value,              \* Atom._value, per atom
    isDirty,            \* Atom._isDirty, per atom
    lastChangedEpoch,   \* Atom._lastChangedEpoch, per atom
    dependents,         \* Atom._dependents, per atom: effect -> order
    deps,               \* AtomEffect._deps, per effect
    isDisposed,         \* AtomEffect._isDisposed, per effect
    fnOf,               \* AtomEffect._fn, per effect ("none": not constructed)
    globalEpoch,        \* let globalEpoch
    pendingAtoms,       \* const pendingAtoms
    isBatchScheduled,   \* let isBatchScheduled
    microtasks,         \* number of flushPendingAtoms callbacks queued
    currentConsumer,    \* let currentConsumer
    consumerStack,      \* let consumerStack
    lastOp,             \* history: the operation the last step performed
    log,                \* history: what happened inside the last step
    written,            \* history: value-changing writes since the last flush began
    notifiedSince,      \* history: per atom, the notifications of its dependents
                        \*          since its last value-changing write
    dphase,             \* reconciler: "store" | "input" | "rendered" | "diffed" | "patched"
                        \*             | "h-input" | "h-built"
                        \*             | "reorder-0" | "reorder-1" | "reorder-2"
    oldTree,            \* reconciler: the committed (old) VNode tree
    newTree,            \* reconciler: the freshly produced VNode tree
    document,           \* reconciler: the target, DOM node id -> node
    patches,            \* reconciler: result of diff(oldTree, newTree)
    diverged,           \* reconciler: diff entered its loop and can never leave it
    hArgs               \* reconciler: the arguments of the call of h()

vars == <<value, isDirty, lastChangedEpoch, dependents, deps, isDisposed, fnOf,
          globalEpoch, pendingAtoms, isBatchScheduled, microtasks,
          currentConsumer, consumerStack, lastOp, log, written, notifiedSince,
          dphase, oldTree, newTree, document, patches, diverged, hArgs>>

storeVars == <<value, isDirty, lastChangedEpoch, dependents, deps, isDisposed, fnOf,
               globalEpoch, pendingAtoms, isBatchScheduled, microtasks,
               currentConsumer, consumerStack, lastOp, log, written,
               notifiedSince>>

diffVars == <<dphase, oldTree, newTree, document, patches, diverged, hArgs>>

-----------------------------------------------------------------------------
(* Bounds of the store model *)

\* largest atom value; values are 0..MaxVal
MaxVal == 1
\* no task-level operation starts once the global epoch has reached this; the
\* flush scheduled by the last write still runs
MaxEpoch == 4
\* a task writes one atom at most this many times (with a changed value)
\* before the flush it scheduled runs
MaxWrites == 2

Atoms == {"a", "b"}
Effects == {"e1", "e2"}
Values == 0 .. MaxVal
\* object values, by reference: 10 and 11 are two objects with the same JSON
\* text, 20 is an object with another text, 30 and 31 are two objects that
\* hold a reference to themselves
Objects == {10, 11, 20, 30, 31}
\* the values JSON.stringify throws on
Unserializable == {30, 31}
AllValues == Values \cup Objects
IsObject(v) == v \in Objects
\* JSON.stringify, as the number of the text it returns
Stringify(v) == v \div 10
Null == "null"
\* the VNode null
NullNode == [type |-> "null"]
\* no call of h() made
NoArgs == [type |-> "none"]

Other(e) == IF e = "e1" THEN "e2" ELSE "e1"

-----------------------------------------------------------------------------
(* Effect functions.  An AtomEffect is built from a closure; the closures   *)
(* the model draws from are straight-line programs over the Atom API.  acc  *)
(* is the closure's local variable holding the value it read last.          *)

Ins(op, atom) == [op |-> op, atom |-> atom]

Programs ==
    [ readA        |-> << Ins("get", "a") >>,
      readB        |-> << Ins("get", "b") >>,
      readAB       |-> << Ins("get", "a"), Ins("get", "b") >>,
      peekA        |-> << Ins("peek", "a") >>,
      throwIfA     |-> << Ins("get", "a"), Ins("throwIf", "a") >>,
      disposeOther |-> << Ins("get", "a"), Ins("disposeOther", "a") >>,
      runOther     |-> << Ins("get", "a"), Ins("runOther", "a") >>,
      copyAB       |-> << Ins("get", "a"), Ins("setAcc", "b"), Ins("get", "b") >>,
      disposeSelf  |-> << Ins("get", "a"), Ins("disposeSelf", "a"), Ins("get", "b") >>,
      bumpB        |-> << Ins("get", "a"), Ins("update", "b") >>,
      bumpSelf     |-> << Ins("get", "b"), Ins("update", "b") >> ]

ProgramNames == DOMAIN Programs

\* the closures each effect may be built from: e1 is the effect that acts on
\* other parts of the store, e2 a plain reader
FnChoices ==
    [ e1 |-> {"readAB", "throwIfA", "disposeOther", "runOther", "copyAB"},
      e2 |-> {"readA", "readB", "peekA"} ]

\* globalEpoch is a Number: ++ leaves it as it is once it has reached 2^53.
\* The model scales 2^53 down to a value that bounded tasks followed by a
\* flush chain that ends do not reach
MaxSafeInteger == 4 * MaxEpoch
Increment(n) == IF n < MaxSafeInteger THEN n + 1 ELSE n

\* the functional updater passed to set(): prev => (prev + 1) % (MaxVal + 1)
Updater(prev) == (prev + 1) % (MaxVal + 1)

-----------------------------------------------------------------------------
(* The store as one record, threaded through the operators below. *)

State ==
    [ value |-> value, isDirty |-> isDirty, lastChangedEpoch |-> lastChangedEpoch,
      dependents |-> dependents, deps |-> deps, isDisposed |-> isDisposed,
      fnOf |-> fnOf, globalEpoch |-> globalEpoch, pendingAtoms |-> pendingAtoms,
      isBatchScheduled |-> isBatchScheduled, microtasks |-> microtasks,
      currentConsumer |-> currentConsumer, consumerStack |-> consumerStack,
      log |-> << >>, written |-> written, notifiedSince |-> notifiedSince,
      ret |-> Null,      \* value returned by the last get()/peek()
      exc |-> FALSE ]    \* an exception is propagating up the call stack

Ev(kind, eff, atom, val) == [ev |-> kind, eff |-> eff, atom |-> atom, val |-> val]

Logged(s, e) == [s EXCEPT !.log = Append(@, e)]

\* m without key k
MapRemove(m, k) == [x \in (DOMAIN m) \ {k} |-> m[x]]

\* m with key k set to v
MapPut(m, k, v) == [x \in (DOMAIN m) \cup {k} |-> IF x = k THEN v ELSE m[x]]

RECURSIVE SortedBy_descending(_, _)
\* the elements of S in descending order of key[x]
SortedBy_descending(S, key) ==
    IF S = {} THEN << >>
    ELSE LET m == CHOOSE x \in S : \A y \in S : key[x] >= key[y]
         IN  << m >> \o SortedBy_descending(S \ {m}, key)

RECURSIVE SortedBy(_, _)
\* the elements of S in ascending order of key[x] (keys are distinct)
SortedBy(S, key) ==
    IF S = {} THEN << >>
    ELSE LET m == CHOOSE x \in S : \A y \in S : key[x] <= key[y]
         IN  << m >> \o SortedBy(S \ {m}, key)

-----------------------------------------------------------------------------
(* atom.ts *)

\* F applied to the value of x.  The state handed from one call to the next is
\* bound to its value here, so that it is computed once however often the
\* callee refers to it
Bind(x, F(_)) == CHOOSE r \in {F(y) : y \in {x}} : TRUE

setCurrentConsumer(s, consumer) ==
    LET stk == IF consumer # Null THEN Append(s.consumerStack, consumer)
               ELSE IF Len(s.consumerStack) > 0
                    THEN SubSeq(s.consumerStack, 1, Len(s.consumerStack) - 1)
                    ELSE s.consumerStack
    IN  [s EXCEPT !.consumerStack = stk,
                  !.currentConsumer = IF Len(stk) > 0 THEN stk[Len(stk)] ELSE Null]

RECURSIVE flushPendingAtoms(_)

\* scheduleFlush queueing a callback without looking at isBatchScheduled
scheduleFlush_always(s) ==
    [s EXCEPT !.isBatchScheduled = TRUE, !.microtasks = @ + 1]

\* scheduleFlush calling flushPendingAtoms itself instead of queueing it
scheduleFlush_sync(s) ==
    IF ~s.isBatchScheduled
    THEN flushPendingAtoms([s EXCEPT !.isBatchScheduled = TRUE])
    ELSE s

\* scheduleFlush: queues flushPendingAtoms unless one is queued already
scheduleFlush(s) ==
    IF ~s.isBatchScheduled
    THEN [s EXCEPT !.isBatchScheduled = TRUE, !.microtasks = @ + 1]
    ELSE s

\* _addDependent reading globalEpoch without incrementing it
addDependent_sameEpoch(s, a, e) ==
    IF e \notin DOMAIN s.dependents[a]
    THEN [s EXCEPT !.dependents[a] = MapPut(@, e, s.globalEpoch)]
    ELSE s

\* Atom._addDependent: order is globalEpoch++ (the value before the increment)
addDependent(s, a, e) ==
    IF e \notin DOMAIN s.dependents[a]
    THEN [s EXCEPT !.dependents[a] = MapPut(@, e, s.globalEpoch),
                   !.globalEpoch = Increment(@)]
    ELSE s

\* _removeDependent leaving the dependents map as it is
removeDependent_kept(s, a, e) == s

\* Atom._removeDependent
removeDependent(s, a, e) == [s EXCEPT !.dependents[a] = MapRemove(@, e)]

\* AtomEffect._addDependency
addDependency(s, e, a) ==
    IF a \notin s.deps[e]
    THEN addDependent([s EXCEPT !.deps[e] = @ \cup {a}], a, e)
    ELSE s

\* Atom.get; the only consumers ever made current are AtomEffects
AtomGet(s, a) ==
    LET t == IF s.currentConsumer # Null
             THEN addDependency(s, s.currentConsumer, a)
             ELSE s
    IN  [t EXCEPT !.ret = s.value[a]]

\* Atom.peek
AtomPeek(s, a) == [s EXCEPT !.ret = s.value[a]]

\* Atom._isEqual comparing references only (the JSON comparison left out)
isEqual_byReference(x, y) == x = y

\* Atom._isEqual whose catch block answers that the values are equal
isEqual_catchEqual(x, y) ==
    IF x = y THEN TRUE
    ELSE IF ~IsObject(x) \/ ~IsObject(y) THEN FALSE
    ELSE IF x \in Unserializable \/ y \in Unserializable THEN TRUE
    ELSE Stringify(x) = Stringify(y)

\* Atom._isEqual: a === b, else for two objects the comparison of their JSON
\* texts, and a === b again in the catch block when JSON.stringify throws
isEqual(x, y) ==
    IF x = y THEN TRUE
    ELSE IF ~IsObject(x) \/ ~IsObject(y) THEN FALSE
    ELSE IF x \in Unserializable \/ y \in Unserializable THEN x = y
    ELSE Stringify(x) = Stringify(y)

\* Atom.set keeping the new value back until the flush: _value is not assigned
AtomSet_deferred(s, a, isFn, newValue) ==
    LET finalValue == IF isFn THEN Updater(s.value[a]) ELSE newValue
    IN  IF ~isEqual(s.value[a], finalValue)
        THEN scheduleFlush(
               [s EXCEPT !.isDirty[a] = TRUE,
                         !.lastChangedEpoch[a] = Increment(s.globalEpoch),
                         !.globalEpoch = Increment(@),
                         !.pendingAtoms = @ \cup {a},
                         !.written[a] = Append(@, finalValue),
                         !.notifiedSince[a] = 0])
        ELSE s

\* Atom.set with a plain value (isFn = FALSE) or a functional updater
AtomSet(s, a, isFn, newValue) ==
    LET finalValue == IF isFn THEN Updater(s.value[a]) ELSE newValue
    IN  IF ~isEqual(s.value[a], finalValue)
        THEN scheduleFlush(
               [s EXCEPT !.value[a] = finalValue,
                         !.isDirty[a] = TRUE,
                         !.lastChangedEpoch[a] = Increment(s.globalEpoch),
                         !.globalEpoch = Increment(@),
                         !.pendingAtoms = @ \cup {a},
                         !.written[a] = Append(@, finalValue),
                         !.notifiedSince[a] = 0])
        ELSE s

RECURSIVE removeFromAll(_, _, _)
\* for (const dep of this._deps) dep._removeDependent(this)
removeFromAll(st, e, ds) ==
    Bind(st, LAMBDA s :
    IF ds = {} THEN s
    ELSE LET a == CHOOSE x \in ds : TRUE
         IN  removeFromAll(removeDependent(s, a, e), e, ds \ {a}))

\* AtomEffect.dispose
dispose(s, e) ==
    IF s.isDisposed[e] THEN s
    ELSE LET t == removeFromAll([s EXCEPT !.isDisposed[e] = TRUE], e, s.deps[e])
         IN  [t EXCEPT !.deps[e] = {}]

RECURSIVE execute(_, _)
RECURSIVE executeBody(_, _)
RECURSIVE runFn(_, _, _, _)

\* the body of the closure this._fn of effect e, from instruction i on
runFn(st, e, i, acc) ==
    Bind(st, LAMBDA s :
    LET prog == Programs[s.fnOf[e]]
    IN  IF s.exc \/ i > Len(prog) THEN s
        ELSE LET ins == prog[i]
             IN CASE ins.op = "get" ->
                       Bind(AtomGet(s, ins.atom), LAMBDA t :
                           runFn(Logged(t, Ev("get", e, ins.atom, t.ret)), e, i + 1, t.ret))
                  [] ins.op = "peek" ->
                       LET t == AtomPeek(s, ins.atom)
                       IN  runFn(Logged(t, Ev("peek", e, ins.atom, t.ret)), e, i + 1, t.ret)
                  [] ins.op = "setAcc" ->
                       Bind(acc, LAMBDA v : runFn(AtomSet(s, ins.atom, FALSE, v), e, i + 1, v))
                  [] ins.op = "update" ->
                       runFn(AtomSet(s, ins.atom, TRUE, Null), e, i + 1, acc)
                  [] ins.op = "throwIf" ->
                       IF acc # 0
                       THEN [Logged(s, Ev("throw", e, ins.atom, acc)) EXCEPT !.exc = TRUE]
                       ELSE runFn(s, e, i + 1, acc)
                  [] ins.op = "disposeOther" ->
                       IF s.fnOf[Other(e)] # "none"
                       THEN runFn(dispose(s, Other(e)), e, i + 1, acc)
                       ELSE runFn(s, e, i + 1, acc)
                  [] ins.op = "disposeSelf" ->
                       runFn(dispose(s, e), e, i + 1, acc)
                  [] ins.op = "runOther" ->
                       IF s.fnOf[Other(e)] # "none"
                       THEN runFn(execute(s, Other(e)), e, i + 1, acc)
                       ELSE runFn(s, e, i + 1, acc))

\* AtomEffect._execute after its _isDisposed guard
executeBody(s, e) ==
    Bind([removeFromAll(s, e, s.deps[e]) EXCEPT !.deps[e] = {}], LAMBDA cleared :
    LET previousConsumer == cleared.currentConsumer
        entered == Logged(setCurrentConsumer(cleared, e),
                          Ev("invoke", e, Null, s.isDisposed[e]))
    IN  \* finally
        Bind(runFn(entered, e, 1, 0),
             LAMBDA ran : setCurrentConsumer(ran, previousConsumer)))

\* _execute without its _isDisposed guard
execute_unguarded(s, e) == executeBody(s, e)

\* AtomEffect._execute (run() is a plain call of it)
execute(s, e) ==
    IF s.isDisposed[e] THEN s ELSE executeBody(s, e)

RECURSIVE runDependents(_, _, _)
\* the loop of Atom._notifyDependents over sortedDependents, from index i on
runDependents(st, sorted, i) ==
    Bind(st, LAMBDA s :
    IF s.exc \/ i > Len(sorted) THEN s
    ELSE runDependents(execute(s, sorted[i]), sorted, i + 1))

\* _notifyDependents without the test of the dirty flag
notifyDependents_unguarded(s, a) ==
    LET sortedDependents == SortedBy(DOMAIN s.dependents[a], s.dependents[a])
    IN  runDependents(Logged([s EXCEPT !.isDirty[a] = FALSE,
                                       !.notifiedSince[a] = IF @ < 2 THEN @ + 1 ELSE @],
                             Ev("notify", Null, a, sortedDependents)),
                      sortedDependents, 1)

\* Atom._notifyDependents
notifyDependents(s, a) ==
    IF s.isDirty[a]
    THEN LET sortedDependents == SortedBy(DOMAIN s.dependents[a], s.dependents[a])
         IN  runDependents(Logged([s EXCEPT !.isDirty[a] = FALSE,
                                            !.notifiedSince[a] = IF @ < 2 THEN @ + 1 ELSE @],
                                  Ev("notify", Null, a, sortedDependents)),
                           sortedDependents, 1)
    ELSE s

RECURSIVE notifyAll(_, _, _)
\* the loop of flushPendingAtoms over atomsToNotify, from index i on
notifyAll(st, atomsToNotify, i) ==
    Bind(st, LAMBDA s :
    IF s.exc \/ i > Len(atomsToNotify) THEN s
    ELSE notifyAll(notifyDependents(s, atomsToNotify[i]), atomsToNotify, i + 1))

flushPendingAtoms(s) ==
    LET atomsToNotify == SortedBy(s.pendingAtoms, s.lastChangedEpoch)
        started == [s EXCEPT !.isBatchScheduled = FALSE, !.pendingAtoms = {}]
    IN  notifyAll(started, atomsToNotify, 1)

-----------------------------------------------------------------------------
(* Steps of the store *)

\* the state a top-level call leaves behind; an exception that reaches the
\* top of the call stack ends the call
Install(s, op) ==
    /\ value' = s.value
    /\ isDirty' = s.isDirty
    /\ lastChangedEpoch' = s.lastChangedEpoch
    /\ dependents' = s.dependents
    /\ deps' = s.deps
    /\ isDisposed' = s.isDisposed
    /\ fnOf' = s.fnOf
    /\ globalEpoch' = s.globalEpoch
    /\ pendingAtoms' = s.pendingAtoms
    /\ isBatchScheduled' = s.isBatchScheduled
    /\ microtasks' = s.microtasks
    /\ currentConsumer' = s.currentConsumer
    /\ consumerStack' = s.consumerStack
    /\ written' = s.written
    /\ notifiedSince' = s.notifiedSince
    /\ log' = s.log
    /\ lastOp' = op
    /\ UNCHANGED diffVars

Op(kind, target, arg, ret, threw) ==
    [op |-> kind, target |-> target, arg |-> arg, ret |-> ret, threw |-> threw]

CanStart == dphase = "store" /\ globalEpoch < MaxEpoch

\* new AtomEffect(fn): store the closure, then _execute()
Construct(e, p) ==
    /\ CanStart
    /\ fnOf[e] = "none"
    /\ LET s == execute([State EXCEPT !.fnOf[e] = p], e)
       IN  Install(s, Op("construct", e, p, Null, s.exc))

\* atom.set(v) called from a task
Set(a, v) ==
    /\ CanStart
    /\ Len(written[a]) < MaxWrites
    /\ LET s == AtomSet(State, a, FALSE, v)
       IN  Install(s, Op("set", a, v, Null, FALSE))

\* atom.set(prev => ...) called from a task
Update(a) ==
    /\ CanStart
    /\ Len(written[a]) < MaxWrites
    /\ LET s == AtomSet(State, a, TRUE, Null)
       IN  Install(s, Op("update", a, Null, Null, FALSE))

\* atom.get() called from a task
Get(a) ==
    /\ CanStart
    /\ LET s == AtomGet(State, a)
       IN  Install(s, Op("get", a, Null, s.ret, FALSE))

\* atom.peek() called from a task
Peek(a) ==
    /\ CanStart
    /\ LET s == AtomPeek(State, a)
       IN  Install(s, Op("peek", a, Null, s.ret, FALSE))

\* effect.dispose() called from a task
Dispose(e) ==
    /\ CanStart
    /\ fnOf[e] # "none"
    /\ LET s == dispose(State, e)
       IN  Install(s, Op("dispose", e, Null, Null, FALSE))

\* the microtask queued by scheduleFlush runs once the task that queued it is over
RunFlush ==
    /\ dphase = "store"
    /\ microtasks > 0
    /\ LET before == [State EXCEPT !.microtasks = @ - 1,
                                   !.written = [a \in Atoms |-> << >>]]
       IN  \E s \in {flushPendingAtoms(before)} :
             Install(s, [op |-> "flush", target |-> Null, arg |-> Null, ret |-> Null,
                         threw |-> s.exc,
                         snapshot |-> SortedBy(pendingAtoms, lastChangedEpoch),
                         subs |-> [a \in Atoms |-> DOMAIN dependents[a]],
                         wasDirty |-> isDirty,
                         wasDisposed |-> isDisposed,
                         writes |-> written])

\* the flushes explored while the epoch counter is within its bound
Flush == globalEpoch <= MaxEpoch /\ RunFlush

Init ==
    /\ value = [a \in Atoms |-> 0]
    /\ isDirty = [a \in Atoms |-> FALSE]
    /\ lastChangedEpoch = [a \in Atoms |-> 0]
    /\ dependents = [a \in Atoms |-> << >>]
    /\ deps = [e \in Effects |-> {}]
    /\ isDisposed = [e \in Effects |-> FALSE]
    /\ fnOf = [e \in Effects |-> "none"]
    /\ globalEpoch = 0
    /\ pendingAtoms = {}
    /\ isBatchScheduled = FALSE
    /\ microtasks = 0
    /\ currentConsumer = Null
    /\ consumerStack = << >>
    /\ lastOp = Op("init", Null, Null, Null, FALSE)
    /\ log = << >>
    /\ written = [a \in Atoms |-> << >>]
    /\ notifiedSince = [a \in Atoms |-> 0]
    /\ dphase = "store"
    /\ oldTree = NullNode
    /\ newTree = NullNode
    /\ document = << >>
    /\ patches = << >>
    /\ diverged = FALSE
    /\ hArgs = NoArgs

Next ==
    \/ \E e \in Effects : \E p \in FnChoices[e] : Construct(e, p)
    \/ \E a \in Atoms, v \in Values : Set(a, v)
    \/ \E a \in Atoms : Update(a)
    \/ \E a \in Atoms : Get(a)
    \/ \E a \in Atoms : Peek(a)
    \/ \E e \in Effects : Dispose(e)
    \/ Flush

Spec == Init /\ [][Next]_vars

\* the store with an atom a that also holds objects, read by one effect
ObjNext ==
    \/ Construct("e2", "readA")
    \/ \E a \in Atoms : \E v \in (IF a = "a" THEN AllValues ELSE Values) : Set(a, v)
    \/ \E a \in Atoms : Update(a)
    \/ Flush

ObjSpec == Init /\ [][ObjNext]_vars

\* the store with an effect whose function disposes the effect and reads on
DisposeNext ==
    \/ Construct("e1", "disposeSelf")
    \/ \E p \in FnChoices["e2"] : Construct("e2", p)
    \/ \E a \in Atoms, v \in Values : Set(a, v)
    \/ \E a \in Atoms : Get(a)
    \/ \E e \in Effects : Dispose(e)
    \/ Flush

DisposeSpec == Init /\ [][DisposeNext]_vars

\* the store with an effect that reads a and writes b, and a reader of b
ReentryNext ==
    \/ Construct("e1", "bumpB")
    \/ Construct("e2", "readB")
    \/ \E a \in Atoms, v \in Values : Set(a, v)
    \/ Flush

ReentrySpec == Init /\ [][ReentryNext]_vars

\* the same store in which every queued flush runs, also the flush queued by
\* a write made during a flush
RenotifyNext ==
    \/ Construct("e1", "bumpB")
    \/ Construct("e2", "readB")
    \/ \E a \in Atoms, v \in Values : Set(a, v)
    \/ RunFlush

RenotifySpec == Init /\ [][RenotifyNext]_vars

\* the store with an effect that writes the atom it reads; every queued flush
\* runs, however far the epoch counter has gone
ConvergeNext ==
    \/ Construct("e1", "bumpSelf")
    \/ Construct("e2", "readA")
    \/ \E a \in Atoms, v \in Values : Set(a, v)
    \/ RunFlush

\* the microtask queue runs every callback queued on it
ConvergeSpec == Init /\ [][ConvergeNext]_vars /\ WF_vars(RunFlush)

-----------------------------------------------------------------------------
(* Bounds of the reconciler model *)

\* longest child list; keys are 1..MaxKids
MaxKids == 3

\* key of a VNode built without one (undefined)
NoKey == 0
\* _dom of a VNode that is not bound (undefined / null)
NoDom == 0
\* the container element handed to the renderer
Container == 1
\* a slot of a children array overwritten with null by diffChildren
Tomb == [type |-> "tombstone"]

IsNode(v) == v.type \notin {"null", "tombstone"}

\* for..in visits the props in the order the object literal lists them
PropOrder == << "class", "id" >>

PropNames(props) == SelectSeq(PropOrder, LAMBDA n : n \in DOMAIN props)

VNode(type, props, children, key) ==
    [type |-> type, props |-> props, children |-> children, key |-> key, dom |-> NoDom]

\* the type null of a text VNode (the VNode null itself is NullNode)
NullType == "#null"
\* the argument props of h() when it is null
NullProps == [null |-> TRUE]

\* the values of the children array given to h()
HNull == [kind |-> "null"]
HUndefined == [kind |-> "undefined"]
HBoolean(b) == [kind |-> "boolean", b |-> b]
HString(s) == [kind |-> "string", s |-> s]
HNumber(n) == [kind |-> "number", n |-> n]
HVNode(v) == [kind |-> "vnode", node |-> v]
HArray(items) == [kind |-> "array", items |-> items]

Digits == << "0", "1", "2", "3", "4", "5", "6", "7", "8", "9" >>
\* String(child) of a number of one digit
String(n) == Digits[n + 1]

RECURSIVE flat(_)
\* children.flat(): arrays among the elements are spliced in, one level deep
flat(children) ==
    IF children = << >> THEN << >>
    ELSE LET c == Head(children)
         IN  (IF c.kind = "array" THEN c.items ELSE << c >>) \o flat(Tail(children))

\* the callback h() maps over the flattened children
normalize(child) ==
    IF child.kind \in {"null", "undefined", "boolean"}
    THEN VNode(NullType, << >>, << >>, NoKey)
    ELSE IF child.kind = "string"
         THEN VNode(NullType, [nodeValue |-> child.s], << >>, NoKey)
         ELSE IF child.kind = "number"
              THEN VNode(NullType, [nodeValue |-> String(child.n)], << >>, NoKey)
              ELSE child.node

\* h(type, props, children, key)
h(type, props, children, key) ==
    LET flattened == flat(children)
        normalizedChildren == [i \in 1 .. Len(flattened) |-> normalize(flattened[i])]
    IN  VNode(type, IF "null" \in DOMAIN props THEN << >> ELSE props,
              normalizedChildren, key)

-----------------------------------------------------------------------------
(* The DOM operations the renderer uses *)

NewNode(tag) == [tag |-> tag, attrs |-> << >>, childNodes |-> << >>, parentNode |-> NoDom]

Without(seq, x) == SelectSeq(seq, LAMBDA y : y # x)

IndexOf(seq, x) ==
    IF \E i \in 1 .. Len(seq) : seq[i] = x
    THEN CHOOSE i \in 1 .. Len(seq) : seq[i] = x /\ \A j \in 1 .. (i - 1) : seq[j] # x
    ELSE 0

\* a node is taken out of its parent before it is inserted elsewhere
Detach(doc, n) ==
    IF doc[n].parentNode = NoDom THEN doc
    ELSE [doc EXCEPT ![doc[n].parentNode].childNodes = Without(@, n),
                     ![n].parentNode = NoDom]

appendChild(doc, parent, n) ==
    LET d == Detach(doc, n)
    IN  [d EXCEPT ![parent].childNodes = Append(@, n), ![n].parentNode = parent]

removeChild(doc, parent, n) == Detach(doc, n)

insertBefore(doc, parent, n, ref) ==
    IF ref = NoDom THEN appendChild(doc, parent, n)
    ELSE LET d == Detach(doc, n)
             kids == d[parent].childNodes
             i == IndexOf(kids, ref)
         IN  [d EXCEPT ![parent].childNodes =
                           SubSeq(kids, 1, i - 1) \o << n >> \o SubSeq(kids, i, Len(kids)),
                       ![n].parentNode = parent]

replaceChild(doc, parent, new, old) ==
    LET d == Detach(doc, new)
        kids == d[parent].childNodes
    IN  [d EXCEPT ![parent].childNodes = [i \in 1 .. Len(kids) |->
                                              IF kids[i] = old THEN new ELSE kids[i]],
                  ![new].parentNode = parent,
                  ![old].parentNode = NoDom]

-----------------------------------------------------------------------------
(* WebShellRenderer.ts *)

\* _setDOMProperty for the string-valued props class and id
setDOMProperty(doc, n, name, val) == [doc EXCEPT ![n].attrs = MapPut(@, name, val)]

\* _removeDOMProperty: className = '' for class, element[name] = '' for id
removeDOMProperty(doc, n, name) == [doc EXCEPT ![n].attrs = MapPut(@, name, "")]

RECURSIVE setProps(_, _, _, _, _)
setProps(doc, n, props, names, i) ==
    IF i > Len(names) THEN doc
    ELSE setProps(setDOMProperty(doc, n, names[i], props[names[i]]), n, props, names, i + 1)

RECURSIVE createDOMNode(_, _)
RECURSIVE createChildren(_, _, _, _)

\* the loop of _createDOMNode over vnode.children: r is [doc, vnode], n the element
createChildren(r, n, i, kids) ==
    IF i > Len(kids) THEN r
    ELSE LET c == createDOMNode(r.doc, kids[i])
             bound == [c.vnode EXCEPT !.dom = c.id]
         IN  createChildren([doc |-> appendChild(c.doc, n, c.id),
                             vnode |-> [r.vnode EXCEPT !.children[i] = bound]],
                            n, i + 1, kids)

\* _createDOMNode for an element VNode: the new document, the node's id, and
\* the vnode with its descendants bound (the caller binds the vnode itself)
createDOMNode(doc, vnode) ==
    LET n == Len(doc) + 1
        made == setProps(Append(doc, NewNode(vnode.type)), n, vnode.props,
                         PropNames(vnode.props), 1)
        r == createChildren([doc |-> made, vnode |-> vnode], n, 1, vnode.children)
    IN  [doc |-> r.doc, id |-> n, vnode |-> r.vnode]

\* WebShellRenderer.render into an empty container
render(doc, vnode) ==
    LET c == createDOMNode(doc, vnode)
    IN  [doc |-> appendChild(c.doc, Container, c.id),
         vnode |-> [c.vnode EXCEPT !.dom = c.id]]

RECURSIVE NodeAt(_, _)
\* the VNode a patch refers to, found by its place in the new tree
NodeAt(tree, path) ==
    IF path = << >> THEN tree ELSE NodeAt(tree.children[Head(path)], Tail(path))

RECURSIVE PutAt(_, _, _)
PutAt(tree, path, v) ==
    IF path = << >> THEN v
    ELSE [tree EXCEPT !.children[Head(path)] = PutAt(@, Tail(path), v)]

patchCreate(r, patch) ==
    LET c == createDOMNode(r.doc, NodeAt(r.tree, patch.path))
    IN  [doc |-> appendChild(c.doc, patch.parentDom, c.id),
         tree |-> PutAt(r.tree, patch.path, [c.vnode EXCEPT !.dom = c.id])]

patchRemove(r, patch) ==
    IF r.doc[patch.node].parentNode # NoDom
    THEN [r EXCEPT !.doc = removeChild(@, r.doc[patch.node].parentNode, patch.node)]
    ELSE r

patchSetProp(r, patch) ==
    [r EXCEPT !.doc = setDOMProperty(@, patch.node, patch.name, patch.value)]

patchRemoveProp(r, patch) ==
    [r EXCEPT !.doc = removeDOMProperty(@, patch.node, patch.name)]

patchReplace(r, patch) ==
    LET parent == r.doc[patch.oldNode].parentNode
    IN  IF parent = NoDom THEN r
        ELSE LET c == createDOMNode(r.doc, NodeAt(r.tree, patch.path))
             IN  [doc |-> replaceChild(c.doc, parent, c.id, patch.oldNode),
                  tree |-> PutAt(r.tree, patch.path, [c.vnode EXCEPT !.dom = c.id])]

RECURSIVE applyMoves(_, _, _, _)
\* the loop of _patchReorderChildren; indices count from 1 here
applyMoves(doc, parentDom, moves, i) ==
    IF i > Len(moves) THEN doc
    ELSE LET node == moves[i].node
             index == moves[i].index
             kids == doc[parentDom].childNodes
             currentIndex == IndexOf(kids, node)
         IN  IF doc[node].parentNode # parentDom \/ currentIndex = 0
             THEN applyMoves(doc, parentDom, moves, i + 1)
             ELSE IF currentIndex # index
                  THEN LET refNode == IF index <= Len(kids) THEN kids[index] ELSE NoDom
                       IN  applyMoves(insertBefore(doc, parentDom, node, refNode),
                                      parentDom, moves, i + 1)
                  ELSE applyMoves(doc, parentDom, moves, i + 1)

patchReorderChildren(r, patch) ==
    [r EXCEPT !.doc = applyMoves(@, patch.parentDom, patch.moves, 1)]

applyPatch(r, patch) ==
    CASE patch.type = "CREATE" -> patchCreate(r, patch)
      [] patch.type = "REMOVE" -> patchRemove(r, patch)
      [] patch.type = "SET_PROP" -> patchSetProp(r, patch)
      [] patch.type = "REMOVE_PROP" -> patchRemoveProp(r, patch)
      [] patch.type = "REPLACE" -> patchReplace(r, patch)
      [] patch.type = "REORDER_CHILDREN" -> patchReorderChildren(r, patch)

RECURSIVE patchAll(_, _, _)
\* WebShellRenderer.patch
patchAll(r, ps, i) ==
    IF i > Len(ps) THEN r ELSE patchAll(applyPatch(r, ps[i]), ps, i + 1)

-----------------------------------------------------------------------------
(* diff.ts *)

\* diffProps pushing SET_PROP for every new prop, without looking at the old value
diffProps_setAll(domNode, oldProps, newProps) ==
    LET newNames == PropNames(newProps)
        gone == SelectSeq(PropNames(oldProps), LAMBDA n : n \notin DOMAIN newProps)
    IN  [i \in 1 .. Len(newNames) |->
            [type |-> "SET_PROP", node |-> domNode, name |-> newNames[i],
             value |-> newProps[newNames[i]]]]
        \o
        [i \in 1 .. Len(gone) |->
            [type |-> "REMOVE_PROP", node |-> domNode, name |-> gone[i],
             value |-> oldProps[gone[i]]]]

diffProps(domNode, oldProps, newProps) ==
    LET newNames == PropNames(newProps)
        oldNames == PropNames(oldProps)
        changed == SelectSeq(newNames, LAMBDA n :
                       n \notin DOMAIN oldProps \/ oldProps[n] # newProps[n])
        gone == SelectSeq(oldNames, LAMBDA n : n \notin DOMAIN newProps)
    IN  [i \in 1 .. Len(changed) |->
            [type |-> "SET_PROP", node |-> domNode, name |-> changed[i],
             value |-> newProps[changed[i]]]]
        \o
        [i \in 1 .. Len(gone) |->
            [type |-> "REMOVE_PROP", node |-> domNode, name |-> gone[i],
             value |-> oldProps[gone[i]]]]

\* oldKeyed: key -> index of the last old child carrying it
oldKeyedOf(oldChildren) ==
    LET keys == {oldChildren[i].key : i \in {j \in 1 .. Len(oldChildren) :
                     IsNode(oldChildren[j]) /\ oldChildren[j].key # NoKey}}
    IN  [k \in keys |-> CHOOSE i \in 1 .. Len(oldChildren) :
             /\ IsNode(oldChildren[i]) /\ oldChildren[i].key = k
             /\ \A j \in (i + 1) .. Len(oldChildren) :
                    ~(IsNode(oldChildren[j]) /\ oldChildren[j].key = k)]

RECURSIVE diffNode(_, _, _, _)
RECURSIVE diffLoop(_, _, _, _, _)
RECURSIVE diffChildren(_, _, _, _)

\* diffNode going on to the props and the children after a REPLACE
diffNode_descend(oldVNode, newVNode, path, parentDom) ==
    IF newVNode.type = "null"
    THEN [patches |-> IF IsNode(oldVNode) /\ oldVNode.dom # NoDom
                      THEN << [type |-> "REMOVE", node |-> oldVNode.dom] >>
                      ELSE << >>,
          old |-> oldVNode, diverged |-> FALSE]
    ELSE IF oldVNode.type = "null"
    THEN [patches |-> << [type |-> "CREATE", path |-> path, parentDom |-> parentDom] >>,
          old |-> oldVNode, diverged |-> FALSE]
    ELSE IF oldVNode.dom = NoDom
    THEN [patches |-> << >>, old |-> oldVNode, diverged |-> FALSE]
    ELSE LET rp == IF oldVNode.type # newVNode.type
                   THEN << [type |-> "REPLACE", oldNode |-> oldVNode.dom,
                            path |-> path] >>
                   ELSE << >>
             pp == diffProps(oldVNode.dom, oldVNode.props, newVNode.props)
             c == diffChildren(oldVNode.dom, oldVNode.children, newVNode.children, path)
         IN  [patches |-> rp \o pp \o c.patches,
              old |-> [oldVNode EXCEPT !.children = c.old],
              diverged |-> c.diverged]

\* diffNode going through the children of an old node that has no successor
diffNode_removeChildren(oldVNode, newVNode, path, parentDom) ==
    IF newVNode.type = "null"
    THEN [patches |-> IF IsNode(oldVNode) /\ oldVNode.dom # NoDom
                      THEN LET left == SelectSeq(oldVNode.children,
                                           LAMBDA c : IsNode(c) /\ c.dom # NoDom)
                           IN  [i \in 1 .. Len(left) |->
                                   [type |-> "REMOVE", node |-> left[i].dom]]
                               \o << [type |-> "REMOVE", node |-> oldVNode.dom] >>
                      ELSE << >>,
          old |-> oldVNode, diverged |-> FALSE]
    ELSE IF oldVNode.type = "null"
    THEN [patches |-> << [type |-> "CREATE", path |-> path, parentDom |-> parentDom] >>,
          old |-> oldVNode, diverged |-> FALSE]
    ELSE IF oldVNode.type # newVNode.type
    THEN [patches |-> IF oldVNode.dom # NoDom
                      THEN << [type |-> "REPLACE", oldNode |-> oldVNode.dom,
                               path |-> path] >>
                      ELSE << >>,
          old |-> oldVNode, diverged |-> FALSE]
    ELSE IF oldVNode.dom = NoDom
    THEN [patches |-> << >>, old |-> oldVNode, diverged |-> FALSE]
    ELSE LET pp == diffProps(oldVNode.dom, oldVNode.props, newVNode.props)
             c == diffChildren(oldVNode.dom, oldVNode.children, newVNode.children, path)
         IN  [patches |-> pp \o c.patches,
              old |-> [oldVNode EXCEPT !.children = c.old],
              diverged |-> c.diverged]

\* diffNode: the patches pushed, the old VNode as the call leaves it, and
\* whether the call never returns
diffNode(oldVNode, newVNode, path, parentDom) ==
    IF newVNode.type = "null"
    THEN [patches |-> IF IsNode(oldVNode) /\ oldVNode.dom # NoDom
                      THEN << [type |-> "REMOVE", node |-> oldVNode.dom] >>
                      ELSE << >>,
          old |-> oldVNode, diverged |-> FALSE]
    ELSE IF oldVNode.type = "null"
    THEN [patches |-> << [type |-> "CREATE", path |-> path, parentDom |-> parentDom] >>,
          old |-> oldVNode, diverged |-> FALSE]
    ELSE IF oldVNode.type # newVNode.type
    THEN [patches |-> IF oldVNode.dom # NoDom
                      THEN << [type |-> "REPLACE", oldNode |-> oldVNode.dom,
                               path |-> path] >>
                      ELSE << >>,
          old |-> oldVNode, diverged |-> FALSE]
    ELSE IF oldVNode.dom = NoDom
    THEN [patches |-> << >>, old |-> oldVNode, diverged |-> FALSE]
    ELSE LET pp == diffProps(oldVNode.dom, oldVNode.props, newVNode.props)
             c == diffChildren(oldVNode.dom, oldVNode.children, newVNode.children, path)
         IN  [patches |-> pp \o c.patches,
              old |-> [oldVNode EXCEPT !.children = c.old],
              diverged |-> c.diverged]

\* one pass of the while loop of diffChildren.  st.objs are the old child
\* objects, st.arr the oldChildren array (a slot is Tomb once nulled), indices
\* count from 1.  When the new range is exhausted and the old one is not, every
\* branch fails, newHead++ is all an iteration does and the condition stays
\* true for ever: the loop never ends.
diffLoop(st, oldKeyed, newChildren, path, parentDom) ==
    IF ~(st.newHead <= st.newTail \/ st.oldHead <= st.oldTail) THEN st
    ELSE IF st.newHead > st.newTail THEN [st EXCEPT !.diverged = TRUE]
    ELSE
    LET oldIn == st.oldHead <= st.oldTail
        oldHeadVNode == IF oldIn THEN st.arr[st.oldHead] ELSE NullNode
        oldTailVNode == IF oldIn THEN st.arr[st.oldTail] ELSE NullNode
        newHeadVNode == newChildren[st.newHead]
        newTailVNode == newChildren[st.newTail]
        Same(o, n) == IsNode(o) /\ IsNode(n) /\ o.key = n.key
        \* diffNode(old child at oi, new child at ni): the old object keeps what
        \* the call did to it
        Sub(oi, ni) == diffNode(st.arr[oi], newChildren[ni], Append(path, ni), parentDom)
        After(oi, d) == [st EXCEPT !.patches = @ \o d.patches,
                                   !.arr[oi] = d.old,
                                   !.objs[oi] = d.old,
                                   !.diverged = d.diverged]
        Rec(t) == IF t.diverged THEN t
                  ELSE diffLoop(t, oldKeyed, newChildren, path, parentDom)
    IN  IF Same(oldHeadVNode, newHeadVNode)
        THEN Rec([After(st.oldHead, Sub(st.oldHead, st.newHead))
                     EXCEPT !.oldHead = @ + 1, !.newHead = @ + 1])
        ELSE IF Same(oldTailVNode, newTailVNode)
        THEN Rec([After(st.oldTail, Sub(st.oldTail, st.newTail))
                     EXCEPT !.oldTail = @ - 1, !.newTail = @ - 1])
        ELSE IF Same(oldHeadVNode, newTailVNode)
        THEN Rec([After(st.oldHead, Sub(st.oldHead, st.newTail))
                     EXCEPT !.oldHead = @ + 1, !.newTail = @ - 1])
        ELSE IF Same(oldTailVNode, newHeadVNode)
        THEN Rec([After(st.oldTail, Sub(st.oldTail, st.newHead))
                     EXCEPT !.oldTail = @ - 1, !.newHead = @ + 1])
        ELSE IF IsNode(newHeadVNode)
                /\ newHeadVNode.key # NoKey /\ newHeadVNode.key \in DOMAIN oldKeyed
        THEN LET index == oldKeyed[newHeadVNode.key]
                 matchedOldVNode == st.objs[index]
                 d == diffNode(matchedOldVNode, newHeadVNode,
                               Append(path, st.newHead), parentDom)
             IN  Rec([st EXCEPT
                        !.patches = @ \o d.patches,
                        !.objs[index] = d.old,
                        !.arr[index] = Tomb,
                        !.diverged = d.diverged,
                        !.moves = IF matchedOldVNode.dom # NoDom
                                  THEN Append(@, [type |-> "MOVE",
                                                  node |-> matchedOldVNode.dom,
                                                  index |-> st.newHead])
                                  ELSE @,
                        !.newHead = @ + 1])
        ELSE IF IsNode(newHeadVNode)
        THEN Rec([st EXCEPT !.patches = Append(@, [type |-> "CREATE",
                                                   path |-> Append(path, st.newHead),
                                                   parentDom |-> parentDom]),
                            !.newHead = @ + 1])
        ELSE Rec([st EXCEPT !.newHead = @ + 1])

\* diffChildren pushing the REORDER_CHILDREN patch before the REMOVE patches
diffChildren_reorderFirst(parentDom, oldChildren, newChildren, path) ==
    LET st0 == [objs |-> oldChildren, arr |-> oldChildren,
                oldHead |-> 1, oldTail |-> Len(oldChildren),
                newHead |-> 1, newTail |-> Len(newChildren),
                patches |-> << >>, moves |-> << >>, diverged |-> FALSE]
        st == diffLoop(st0, oldKeyedOf(oldChildren), newChildren, path, parentDom)
        left == SelectSeq(st.arr, LAMBDA c : IsNode(c) /\ c.dom # NoDom)
        removes == [i \in 1 .. Len(left) |-> [type |-> "REMOVE", node |-> left[i].dom]]
        reorder == IF Len(st.moves) > 0
                   THEN << [type |-> "REORDER_CHILDREN", parentDom |-> parentDom,
                            moves |-> st.moves] >>
                   ELSE << >>
    IN  [patches |-> st.patches \o reorder \o removes,
         old |-> st.arr,
         diverged |-> st.diverged]

diffChildren(parentDom, oldChildren, newChildren, path) ==
    LET st0 == [objs |-> oldChildren, arr |-> oldChildren,
                oldHead |-> 1, oldTail |-> Len(oldChildren),
                newHead |-> 1, newTail |-> Len(newChildren),
                patches |-> << >>, moves |-> << >>, diverged |-> FALSE]
        st == diffLoop(st0, oldKeyedOf(oldChildren), newChildren, path, parentDom)
        left == SelectSeq(st.arr, LAMBDA c : IsNode(c) /\ c.dom # NoDom)
        removes == [i \in 1 .. Len(left) |-> [type |-> "REMOVE", node |-> left[i].dom]]
        reorder == IF Len(st.moves) > 0
                   THEN << [type |-> "REORDER_CHILDREN", parentDom |-> parentDom,
                            moves |-> st.moves] >>
                   ELSE << >>
    IN  [patches |-> st.patches \o removes \o reorder,
         old |-> st.arr,
         diverged |-> st.diverged]

\* diff(oldVNode, newVNode, parentDom)
diff(oldVNode, newVNode, parentDom) == diffNode(oldVNode, newVNode, << >>, parentDom)

-----------------------------------------------------------------------------
(* The trees the reconciler is run on *)

KeySeqs(n) ==
    {s \in UNION {[1 .. m -> 1 .. n] : m \in 0 .. n} :
        \A i, j \in DOMAIN s : i # j => s[i] # s[j]}

TypeSeqs(n) == UNION {[1 .. m -> {"li", "p"}] : m \in 0 .. n}

Leaf(type, key) == VNode(type, << >>, << >>, key)

\* key lists in which a key may come twice
DupSeqs(n) == UNION {[1 .. m -> 1 .. 2] : m \in 0 .. n}

\* <div> over keyed children
KeyedTree(ks) == VNode("div", << >>, [i \in 1 .. Len(ks) |-> Leaf("li", ks[i])], NoKey)

\* <div> over children without keys
UnkeyedTree(ts) == VNode("div", << >>, [i \in 1 .. Len(ts) |-> Leaf(ts[i], NoKey)], NoKey)

\* <div><ul> keyed children </ul></div>
DeepTree(ks) ==
    VNode("div", << >>,
          << VNode("ul", << >>, [i \in 1 .. Len(ks) |-> Leaf("li", ks[i])], NoKey) >>,
          NoKey)

PropChoices == { << >>, [class |-> "x", id |-> "1"], [class |-> "y"] }

\* a root of either type with props, over one child
PropTree(type, props) == VNode(type, props, << Leaf("li", NoKey) >>, NoKey)

\* <div> over one or two <ul> carrying the same key, each over keyed children
\* in which a key may come twice
TwinTree(kss) ==
    VNode("div", << >>,
          [i \in 1 .. Len(kss) |->
              VNode("ul", << >>,
                    [j \in 1 .. Len(kss[i]) |-> Leaf("li", kss[i][j])], 1)],
          NoKey)

\* <div> over at most two children of either type that all carry the key 1
SameKeyTree(ts) == VNode("div", << >>, [i \in 1 .. Len(ts) |-> Leaf(ts[i], 1)], NoKey)

KeyedTrees == {KeyedTree(ks) : ks \in KeySeqs(MaxKids)}
DupKeyTrees == {KeyedTree(ks) : ks \in DupSeqs(MaxKids)}
UnkeyedTrees == {UnkeyedTree(ts) : ts \in TypeSeqs(MaxKids)}
DeepTrees == {DeepTree(ks) : ks \in KeySeqs(MaxKids - 1)}
PropTrees == {PropTree(ty, pr) : ty \in {"div", "span"}, pr \in PropChoices}
SameKeyTrees == {SameKeyTree(ts) : ts \in TypeSeqs(2)}
TwinTrees == {TwinTree(kss) : kss \in UNION {[1 .. m -> DupSeqs(2)] : m \in 1 .. 2}}

TreePairs ==
    (KeyedTrees \X KeyedTrees) \cup (UnkeyedTrees \X UnkeyedTrees)
    \cup (DupKeyTrees \X DupKeyTrees)
    \cup (TwinTrees \X TwinTrees)
    \cup (SameKeyTrees \X SameKeyTrees)
    \cup (DeepTrees \X DeepTrees) \cup (PropTrees \X PropTrees)
    \cup ({NullNode} \X PropTrees) \cup (PropTrees \X {NullNode})
    \cup {<< NullNode, NullNode >>}

RECURSIVE Unbound(_)
\* a VNode as its producer built it: no node bound
Unbound(v) ==
    IF ~IsNode(v) THEN v
    ELSE [v EXCEPT !.dom = NoDom,
                   !.children = [i \in 1 .. Len(v.children) |-> Unbound(v.children[i])]]

RECURSIVE AllBound(_)
AllBound(v) ==
    IsNode(v) /\ v.dom # NoDom /\ \A i \in 1 .. Len(v.children) : AllBound(v.children[i])

RECURSIVE Shape(_, _)
\* what a target node looks like: tag, attributes that are set, children in order
Shape(doc, n) ==
    [tag |-> doc[n].tag,
     attrs |-> [a \in {x \in DOMAIN doc[n].attrs : doc[n].attrs[x] # ""} |-> doc[n].attrs[a]],
     kids |-> [i \in 1 .. Len(doc[n].childNodes) |-> Shape(doc, doc[n].childNodes[i])]]

EmptyDocument == << NewNode("container") >>

\* the target WebShellRenderer.render builds from a tree
BuiltFrom(tree) ==
    IF IsNode(tree) THEN render(EmptyDocument, Unbound(tree)).doc ELSE EmptyDocument

-----------------------------------------------------------------------------
(* Steps of the reconciler: render the old tree, diff, patch *)

DiffInit ==
    /\ value = [a \in Atoms |-> 0]
    /\ isDirty = [a \in Atoms |-> FALSE]
    /\ lastChangedEpoch = [a \in Atoms |-> 0]
    /\ dependents = [a \in Atoms |-> << >>]
    /\ deps = [e \in Effects |-> {}]
    /\ isDisposed = [e \in Effects |-> FALSE]
    /\ fnOf = [e \in Effects |-> "none"]
    /\ globalEpoch = 0
    /\ pendingAtoms = {}
    /\ isBatchScheduled = FALSE
    /\ microtasks = 0
    /\ currentConsumer = Null
    /\ consumerStack = << >>
    /\ lastOp = Op("init", Null, Null, Null, FALSE)
    /\ log = << >>
    /\ written = [a \in Atoms |-> << >>]
    /\ notifiedSince = [a \in Atoms |-> 0]
    /\ dphase = "input"
    /\ \E pr \in TreePairs : oldTree = pr[1] /\ newTree = pr[2]
    /\ document = EmptyDocument
    /\ patches = << >>
    /\ diverged = FALSE
    /\ hArgs = NoArgs

\* renderer.render(oldTree): the first render of a view
Render ==
    /\ dphase = "input"
    /\ dphase' = "rendered"
    /\ IF IsNode(oldTree)
       THEN LET r == render(document, oldTree)
            IN  document' = r.doc /\ oldTree' = r.vnode
       ELSE UNCHANGED <<document, oldTree>>
    /\ UNCHANGED <<newTree, patches, diverged, hArgs>>
    /\ UNCHANGED storeVars

\* patches = diff(oldTree, newTree, container)
Diff ==
    /\ dphase = "rendered"
    /\ dphase' = "diffed"
    /\ LET d == diff(oldTree, newTree, Container)
       IN  /\ diverged' = d.diverged
           /\ patches' = IF d.diverged THEN << >> ELSE d.patches
           /\ oldTree' = d.old
    /\ UNCHANGED <<newTree, document, hArgs>>
    /\ UNCHANGED storeVars

\* renderer.patch(patches), once diff has returned them
Patch ==
    /\ dphase = "diffed"
    /\ ~diverged
    /\ dphase' = "patched"
    /\ LET r == patchAll([doc |-> document, tree |-> newTree], patches, 1)
       IN  document' = r.doc /\ newTree' = r.tree
    /\ UNCHANGED <<oldTree, patches, diverged, hArgs>>
    /\ UNCHANGED storeVars

\* what a view may pass to h() as one child
HChildren ==
    { HNull, HUndefined, HBoolean(TRUE), HBoolean(FALSE), HString("x"), HNumber(7),
      HVNode(Leaf("li", NoKey)) }

HChildLists == UNION {[1 .. m -> HChildren] : m \in 0 .. MaxKids}

HCalls ==
    [type : {"div"}, props : {NullProps, [class |-> "y"]}, children : HChildLists,
     key : {NoKey, 1}]

HInit ==
    /\ value = [a \in Atoms |-> 0]
    /\ isDirty = [a \in Atoms |-> FALSE]
    /\ lastChangedEpoch = [a \in Atoms |-> 0]
    /\ dependents = [a \in Atoms |-> << >>]
    /\ deps = [e \in Effects |-> {}]
    /\ isDisposed = [e \in Effects |-> FALSE]
    /\ fnOf = [e \in Effects |-> "none"]
    /\ globalEpoch = 0
    /\ pendingAtoms = {}
    /\ isBatchScheduled = FALSE
    /\ microtasks = 0
    /\ currentConsumer = Null
    /\ consumerStack = << >>
    /\ lastOp = Op("init", Null, Null, Null, FALSE)
    /\ log = << >>
    /\ written = [a \in Atoms |-> << >>]
    /\ notifiedSince = [a \in Atoms |-> 0]
    /\ dphase = "h-input"
    /\ hArgs \in HCalls
    /\ oldTree = NullNode
    /\ newTree = NullNode
    /\ document = EmptyDocument
    /\ patches = << >>
    /\ diverged = FALSE

\* newTree = h(type, props, children, key)
H ==
    /\ dphase = "h-input"
    /\ dphase' = "h-built"
    /\ newTree' = h(hArgs.type, hArgs.props, hArgs.children, hArgs.key)
    /\ UNCHANGED <<oldTree, document, patches, diverged, hArgs>>
    /\ UNCHANGED storeVars

HNext == H

HSpec == HInit /\ [][HNext]_vars

\* the longest move list of a REORDER_CHILDREN patch handed to the applier
MaxMoves == 2

\* a parent rendered over n children: the parent is target node 2, its
\* children are the nodes 3 .. n + 2
Siblings(n) == render(EmptyDocument, KeyedTree([i \in 1 .. n |-> i]))

\* the move lists over a parent of n children: a move names a child, or the
\* parent itself (not a child of the parent), and an index up to past the end
MoveLists(n) ==
    UNION {[1 .. m -> [type : {"MOVE"}, node : 2 .. (n + 2), index : 1 .. (n + 1)]] :
              m \in 0 .. MaxMoves}

ReorderInit ==
    /\ value = [a \in Atoms |-> 0]
    /\ isDirty = [a \in Atoms |-> FALSE]
    /\ lastChangedEpoch = [a \in Atoms |-> 0]
    /\ dependents = [a \in Atoms |-> << >>]
    /\ deps = [e \in Effects |-> {}]
    /\ isDisposed = [e \in Effects |-> FALSE]
    /\ fnOf = [e \in Effects |-> "none"]
    /\ globalEpoch = 0
    /\ pendingAtoms = {}
    /\ isBatchScheduled = FALSE
    /\ microtasks = 0
    /\ currentConsumer = Null
    /\ consumerStack = << >>
    /\ lastOp = Op("init", Null, Null, Null, FALSE)
    /\ log = << >>
    /\ written = [a \in Atoms |-> << >>]
    /\ notifiedSince = [a \in Atoms |-> 0]
    /\ dphase = "reorder-0"
    /\ \E n \in 1 .. MaxKids :
           /\ oldTree = Siblings(n).vnode
           /\ newTree = Siblings(n).vnode
           /\ document = Siblings(n).doc
           /\ \E ms \in MoveLists(n) :
                  patches = << [type |-> "REORDER_CHILDREN", parentDom |-> 2,
                                moves |-> ms] >>
    /\ diverged = FALSE
    /\ hArgs = NoArgs

\* renderer.patch(patches) with the REORDER_CHILDREN patch, a first and a second time
Reorder ==
    /\ dphase \in {"reorder-0", "reorder-1"}
    /\ dphase' = IF dphase = "reorder-0" THEN "reorder-1" ELSE "reorder-2"
    /\ LET r == patchAll([doc |-> document, tree |-> newTree], patches, 1)
       IN  document' = r.doc /\ newTree' = r.tree
    /\ UNCHANGED <<oldTree, patches, diverged, hArgs>>
    /\ UNCHANGED storeVars

ReorderNext == Reorder

ReorderSpec == ReorderInit /\ [][ReorderNext]_vars

DiffNext == Render \/ Diff \/ Patch

DiffSpec == DiffInit /\ [][DiffNext]_vars

-----------------------------------------------------------------------------
(* Properties of the store *)

InFlush == lastOp.op = "flush"

\* the atoms the flush that just ran took from the pending set
Snapshot == {lastOp.snapshot[i] : i \in DOMAIN lastOp.snapshot}

\* the positions in the last step's log at which the function of e was entered
Invoked(e) == {i \in DOMAIN log : log[i].ev = "invoke" /\ log[i].eff = e}

\* the values e read from atom a with get() during the last step
Observed(e, a) ==
    {log[i].val : i \in {j \in DOMAIN log :
        log[j].ev = "get" /\ log[j].eff = e /\ log[j].atom = a}}

\* e was subscribed to an atom of the snapshot when the flush started
Affected(e) == \E a \in Snapshot : e \in lastOp.subs[a]

\* e was not disposed before or during the flush
Alive(e) == ~lastOp.wasDisposed[e] /\ ~isDisposed[e]

\* no other effect calls e.run() itself
NotRunByHand(e) == fnOf[Other(e)] # "runOther"

Last(seq) == seq[Len(seq)]

\* the values written to a since the flush that just ran started
WrittenSince(a) == {written[a][i] : i \in DOMAIN written[a]}

\* C1: every effect subscribed to at least one of the atoms written in a turn,
\* an effect subscribed to two of them included, is executed exactly once by
\* the flush that follows (here: even in the flushes in which nothing throws)
C1_EachAffectedEffectRunsOnce ==
    (InFlush /\ ~lastOp.threw) =>
        \A e \in Effects :
            (Affected(e) /\ Alive(e) /\ NotRunByHand(e)) => Cardinality(Invoked(e)) = 1

\* C2: an exception thrown by an effect's run during a flush is caught at the
\* flush boundary and does not abort the flush: every other effect subscribed
\* to an atom pending in that flush is still run in it
C2_ThrowDoesNotAbortFlush ==
    (InFlush /\ \E i \in DOMAIN log : log[i].ev = "throw") =>
        \A e \in Effects :
            (Affected(e) /\ Alive(e)) => Invoked(e) # {}

\* C3: when one atom is written k >= 1 times in a turn, each write changing
\* its value, the flush that follows runs an effect that reads it with get()
\* exactly once, and the run observes the last written value only
C3_CoalescedWritesRunOnce ==
    (InFlush /\ Cardinality(Snapshot) = 1) =>
        \A a \in Snapshot : \A e \in lastOp.subs[a] :
            (Alive(e) /\ NotRunByHand(e)) =>
                /\ Cardinality(Invoked(e)) = 1
                /\ Observed(e, a) \subseteq
                       {Last(lastOp.writes[a])} \cup WrittenSince(a)

\* C4: set() never runs an effect synchronously: the call of set() enters no
\* effect function, and a write made by an effect's function while the effect
\* is being constructed enters no other effect's function; effects run on
\* account of a write only inside the deferred flush
C4_SetNeverRunsEffect ==
    /\ lastOp.op \in {"set", "update"} => \A e \in Effects : Invoked(e) = {}
    /\ (lastOp.op = "construct" /\ lastOp.arg # "runOther") =>
           Invoked(Other(lastOp.target)) = {}
    /\ (\E e \in Effects : Invoked(e) # {}) => lastOp.op \in {"construct", "flush"}

\* a task wrote an atom an effect is subscribed to, and the flush has not run yet
C4_Witness ==
    /\ lastOp.op \in {"set", "update"}
    /\ dependents[lastOp.target] # << >>
    /\ isDirty[lastOp.target]
    /\ lastOp.target \in pendingAtoms
    /\ microtasks > 0

\* C5: once dispose() has been called on an effect its function is never
\* entered again, whatever writes and flushes follow
C5_DisposedEffectNeverInvoked ==
    \A i \in DOMAIN log : log[i].ev = "invoke" => log[i].val = FALSE

\* e2 was subscribed to a pending atom when the flush started and e1, running
\* earlier in the same flush, disposed it: e2 was not run
C5_Witness ==
    /\ InFlush
    /\ fnOf["e1"] = "disposeOther"
    /\ Affected("e2")
    /\ ~lastOp.wasDisposed["e2"]
    /\ isDisposed["e2"]
    /\ Invoked("e1") # {}
    /\ Invoked("e2") = {}

PeekOnly(e) == fnOf[e] = "peekA"

\* C6: peek() returns the current value and leaves every dependents map and
\* every dependency set as they were, whether or not a consumer is active; an
\* effect that reads atoms through peek() only runs at construction and no
\* flush ever runs it again as a dependent of a written atom
C6_PeekRegistersNothing ==
    [][ /\ lastOp'.op = "peek" =>
              /\ lastOp'.ret = value[lastOp'.target]
              /\ dependents' = dependents
              /\ deps' = deps
        /\ lastOp'.op = "flush" =>
              \A e \in Effects :
                  PeekOnly(e) =>
                      \A i \in DOMAIN log' :
                          log'[i].ev = "notify" =>
                              \A k \in DOMAIN log'[i].val : log'[i].val[k] # e ]_vars

\* C7: a write is in storage as soon as set() returns: get() and peek() return
\* the value written last, also before any flush and also inside a running
\* effect, and a functional updater is applied to the value written last
C7_WritesAreSynchronous ==
    [][ /\ (lastOp'.op = "set" /\ lastOp'.arg # value[lastOp'.target]) =>
              value'[lastOp'.target] = lastOp'.arg
        /\ (lastOp'.op = "update" /\ written[lastOp'.target] # << >>) =>
              value'[lastOp'.target] = Updater(Last(written[lastOp'.target]))
        /\ lastOp'.op \in {"get", "peek"} =>
              /\ lastOp'.ret = value[lastOp'.target]
              /\ written[lastOp'.target] # << >> =>
                    lastOp'.ret = Last(written[lastOp'.target])
        /\ \A i \in DOMAIN log' :
              (log'[i].ev = "get" /\ log'[i].atom = "b"
                 /\ fnOf'[log'[i].eff] = "copyAB") =>
                  /\ i > 1
                  /\ log'[i - 1].ev = "get" /\ log'[i - 1].atom = "a"
                  /\ log'[i].val = log'[i - 1].val ]_vars

\* an effect wrote b inside its run and read the new value back with get(),
\* with the flush for that write still to come
C7_Witness ==
    /\ lastOp.op \in {"construct", "flush"}
    /\ \E i \in DOMAIN log :
          /\ log[i].ev = "get" /\ log[i].atom = "b"
          /\ fnOf[log[i].eff] = "copyAB"
          /\ written["b"] # << >>
          /\ log[i].val = Last(written["b"])
    /\ "b" \in pendingAtoms
    /\ microtasks > 0

-----------------------------------------------------------------------------
(* Properties of the reconciler *)

\* C8: for a tree T whose nodes are all bound, children keyed or unkeyed
\* included, diff(T, T) returns an empty patch list (diff reads no binding of
\* its second argument, so T and an unbound copy of T are diffed alike)
C8_DiffOfSameTreeIsEmpty ==
    (dphase = "diffed" /\ AllBound(oldTree) /\ Unbound(oldTree) = newTree) =>
        (~diverged /\ patches = << >>)

\* C9: the patches of diff(A, B), applied in order to the target built from A,
\* leave a target with the node types, props and child order of the target
\* built from B
C9_PatchedTargetMatchesNewTree ==
    dphase = "patched" =>
        Shape(document, Container) = Shape(BuiltFrom(newTree), Container)

\* C10: diff returns for every pair of child lists, also when the old list
\* holds children that match no new child
C10_DiffTerminates ==
    dphase = "diffed" => ~diverged

\* the step in which diff runs: oldTree is the tree handed to it, patches' its result
DiffStep == dphase = "rendered" /\ dphase' = "diffed"

OfType(ps, ty) == SelectSeq(ps, LAMBDA p : p.type = ty)

ChildKeys(t) == [i \in 1 .. Len(t.children) |-> t.children[i].key]

DistinctKeys(ks) ==
    /\ \A i \in DOMAIN ks : ks[i] # NoKey
    /\ \A i, j \in DOMAIN ks : i # j => ks[i] # ks[j]

\* ks with its last element moved to the front
Rotated(ks) == << ks[Len(ks)] >> \o SubSeq(ks, 1, Len(ks) - 1)

Reversed(ks) == [i \in 1 .. Len(ks) |-> ks[Len(ks) + 1 - i]]

RECURSIVE MoveCount(_)
\* the number of MOVE entries in all the REORDER_CHILDREN patches of ps
MoveCount(ps) ==
    IF ps = << >> THEN 0
    ELSE (IF Head(ps).type = "REORDER_CHILDREN" THEN Len(Head(ps).moves) ELSE 0)
         + MoveCount(Tail(ps))

\* the old and the new tree are same-type parents of bound, distinctly keyed children
KeyedLists ==
    /\ IsNode(oldTree) /\ IsNode(newTree)
    /\ oldTree.type = newTree.type
    /\ AllBound(oldTree)
    /\ Len(oldTree.children) >= 2
    /\ DistinctKeys(ChildKeys(oldTree))

\* C11: when the new keyed child list is the old one with its last child moved
\* to the front, diff emits no CREATE, no REMOVE and exactly one
\* REORDER_CHILDREN patch, whose move list has exactly one entry
C11_MoveToFrontIsOneMove ==
    [][ (DiffStep /\ KeyedLists
           /\ Len(oldTree.children) >= 3
           /\ ChildKeys(newTree) = Rotated(ChildKeys(oldTree))) =>
            /\ ~diverged'
            /\ OfType(patches', "CREATE") = << >>
            /\ OfType(patches', "REMOVE") = << >>
            /\ Len(OfType(patches', "REORDER_CHILDREN")) = 1
            /\ MoveCount(patches') = 1 ]_vars

\* C12: when the new list holds the n distinct keys of the old list in reverse
\* order, diff emits no CREATE, no REMOVE and at most n MOVE entries
C12_ReverseIsLinearMoves ==
    [][ (DiffStep /\ KeyedLists
           /\ ChildKeys(newTree) = Reversed(ChildKeys(oldTree))) =>
            /\ ~diverged'
            /\ OfType(patches', "CREATE") = << >>
            /\ OfType(patches', "REMOVE") = << >>
            /\ MoveCount(patches') <= Len(oldTree.children) ]_vars

\* diff has returned the patches of two bound roots of the same type
SameTypeDiffed ==
    /\ dphase = "diffed" /\ ~diverged
    /\ IsNode(oldTree) /\ IsNode(newTree)
    /\ oldTree.type = newTree.type
    /\ oldTree.dom # NoDom

\* the patches of the given type that ps holds for target node n
PropPatches(ps, ty, n) == SelectSeq(ps, LAMBDA p : p.type = ty /\ p.node = n)

\* C13: for two bound nodes of the same type diff emits SET_PROP(name, new
\* value) exactly for the names whose new value is absent from or different in
\* the old props, REMOVE_PROP(name) exactly for the names of the old props
\* absent from the new ones, each once, and nothing for an unchanged name
C13_PropPatchesAreExact ==
    SameTypeDiffed =>
        LET old == oldTree.props
            new == newTree.props
            sets == PropPatches(patches, "SET_PROP", oldTree.dom)
            removes == PropPatches(patches, "REMOVE_PROP", oldTree.dom)
            changed == {n \in DOMAIN new : n \notin DOMAIN old \/ old[n] # new[n]}
            gone == (DOMAIN old) \ (DOMAIN new)
        IN  /\ {<< sets[i].name, sets[i].value >> : i \in DOMAIN sets}
                 = {<< n, new[n] >> : n \in changed}
            /\ Len(sets) = Cardinality(changed)
            /\ {removes[i].name : i \in DOMAIN removes} = gone
            /\ Len(removes) = Cardinality(gone)

\* {class: x, id: 1} -> {class: y} was diffed
C13_Witness ==
    /\ SameTypeDiffed
    /\ DOMAIN oldTree.props = {"class", "id"}
    /\ DOMAIN newTree.props = {"class"}
    /\ oldTree.props.class = "x" /\ newTree.props.class = "y"
    /\ Len(PropPatches(patches, "SET_PROP", oldTree.dom)) = 1
    /\ Len(PropPatches(patches, "REMOVE_PROP", oldTree.dom)) = 1

\* every child of t is a node without a key
Unkeyed(t) == \A i \in DOMAIN t.children :
                  IsNode(t.children[i]) /\ t.children[i].key = NoKey

\* the positions both unkeyed lists have, at which the types differ
Retyped ==
    {i \in (DOMAIN oldTree.children) \cap (DOMAIN newTree.children) :
        oldTree.children[i].type # newTree.children[i].type}

\* C14: when the old and the new node at one position differ in type, diff
\* emits exactly one REPLACE(old binding, new node) for the position and no
\* prop patch and no patch for the children of that subtree
C14_TypeChangeIsOneReplace ==
    (dphase = "diffed" /\ ~diverged /\ IsNode(oldTree) /\ IsNode(newTree)
       /\ oldTree.dom # NoDom) =>
        /\ oldTree.type # newTree.type =>
              patches = << [type |-> "REPLACE", oldNode |-> oldTree.dom, path |-> << >>] >>
        /\ (oldTree.type = newTree.type /\ Unkeyed(oldTree) /\ Unkeyed(newTree)) =>
              \A i \in Retyped :
                  LET b == oldTree.children[i].dom
                  IN  /\ Len(SelectSeq(patches, LAMBDA p :
                                p.type = "REPLACE" /\ p.path = << i >>)) = 1
                      /\ Len(SelectSeq(patches, LAMBDA p :
                                p.type = "REPLACE" /\ p.oldNode = b)) = 1
                      /\ \A k \in DOMAIN patches :
                            /\ patches[k].type \in {"SET_PROP", "REMOVE_PROP"} =>
                                  patches[k].node # b
                            /\ patches[k].type = "REORDER_CHILDREN" =>
                                  patches[k].parentDom # b
                            /\ patches[k].type = "CREATE" =>
                                  patches[k].parentDom # b

\* a bound <div> with props and a child was diffed against a <span>
C14_Witness ==
    /\ dphase = "diffed" /\ ~diverged
    /\ IsNode(oldTree) /\ IsNode(newTree)
    /\ oldTree.type # newTree.type
    /\ oldTree.dom # NoDom
    /\ oldTree.children # << >>
    /\ DOMAIN oldTree.props # DOMAIN newTree.props
    /\ Len(patches) = 1

\* C15: diff is pure: when diff(old, new) returns, the old and the new tree,
\* every children array element by element included, are as they were before
\* the call, also when keyed children are matched through the lookup table
C15_DiffLeavesItsInputs ==
    [][ (DiffStep /\ ~diverged') => (oldTree' = oldTree /\ newTree' = newTree) ]_vars

\* x and y are the same reference or primitive, or structurally equal objects
SameValue(x, y) ==
    \/ x = y
    \/ /\ IsObject(x) /\ IsObject(y)
       /\ x \notin Unserializable /\ y \notin Unserializable
       /\ Stringify(x) = Stringify(y)

\* C16: a set() whose value equals the current one (same reference or
\* primitive, or structurally equal objects) changes nothing: value, dirty
\* flag, lastChangedEpoch, global epoch, pending set and the scheduled flush
\* stay as they were and no effect runs
C16_EqualSetChangesNothing ==
    [][ (lastOp'.op = "set" /\ SameValue(value[lastOp'.target], lastOp'.arg)) =>
            /\ UNCHANGED << value, isDirty, lastChangedEpoch, globalEpoch,
                            pendingAtoms, isBatchScheduled, microtasks >>
            /\ log' = << >> ]_vars

\* an atom an effect reads holds an object and was set to another object with
\* the same JSON text
C16_Witness ==
    /\ lastOp.op = "set"
    /\ IsObject(lastOp.arg)
    /\ lastOp.arg # value[lastOp.target]
    /\ SameValue(value[lastOp.target], lastOp.arg)
    /\ dependents[lastOp.target] # << >>
    /\ ~isDirty[lastOp.target]
    /\ microtasks = 0

\* C17: however many value-changing writes a turn makes, one flush callback is
\* queued for them: at most one callback is ever queued, one is queued whenever
\* an atom is pending, and a further one is queued only once the queued one
\* has started to execute
C17_OneFlushPerTurn ==
    /\ microtasks \in {0, 1}
    /\ isBatchScheduled <=> microtasks = 1
    /\ pendingAtoms # {} => microtasks = 1

\* two atoms were written with new values in the same turn
C17_Witness ==
    /\ pendingAtoms = Atoms
    /\ \A a \in Atoms : isDirty[a] /\ Len(written[a]) >= 1
    /\ lastOp.op \in {"set", "update"}
    /\ microtasks = 1

\* the atoms on which the function of e called get() during the last step
ReadBy(e) == {a \in Atoms : Observed(e, a) # {}}

\* the function of some effect threw during the last step
Threw == \E i \in DOMAIN log : log[i].ev = "throw"

\* C18: the dependency set of a live effect is exactly the set of atoms its
\* latest completed run called get() on: a step that runs the effect leaves it
\* with the atoms read in the run, and no other step changes it
C18_DepsAreLatestReads ==
    [][ \A e \in Effects :
          (fnOf'[e] # "none" /\ ~isDisposed'[e] /\ ~Threw') =>
              IF Invoked(e)' # {} THEN deps'[e] = ReadBy(e)'
                                  ELSE deps'[e] = deps[e] ]_vars

\* C19: once dispose() has been called on an effect, from a task or from the
\* effect's own running function, no dependents map contains the effect and
\* its dependency set is empty, in every later state
C19_DisposedHasNoEdges ==
    \A e \in Effects :
        isDisposed[e] => /\ deps[e] = {}
                         /\ \A a \in Atoms : e \notin DOMAIN dependents[a]

\* the children given to h() that are not null, undefined or a boolean
KeptChildren == SelectSeq(hArgs.children,
                          LAMBDA c : c.kind \notin {"null", "undefined", "boolean"})

\* C20: the children of the node h() builds are the input children that are
\* not null, undefined or a boolean, one node each and in input order: a text
\* node carrying the value for a string or a number, the node itself for a node
C20_NullAndBooleanChildrenDropped ==
    dphase = "h-built" =>
        /\ Len(newTree.children) = Len(KeptChildren)
        /\ \A i \in 1 .. Len(KeptChildren) :
              LET c == KeptChildren[i]
                  n == newTree.children[i]
              IN  CASE c.kind = "string" ->
                         n.type = NullType /\ DOMAIN n.props = {"nodeValue"}
                                           /\ n.props.nodeValue = c.s
                    [] c.kind = "number" ->
                         n.type = NullType /\ DOMAIN n.props = {"nodeValue"}
                                           /\ n.props.nodeValue = String(c.n)
                    [] OTHER -> n = c.node

\* the comparison of x and y inside set() reaches JSON.stringify and it throws
ComparisonThrows(x, y) ==
    /\ x # y /\ IsObject(x) /\ IsObject(y)
    /\ (x \in Unserializable \/ y \in Unserializable)

\* C21: when the structural comparison inside set() throws, set() does not
\* throw; the references differ, so the write is a change: the value is
\* stored, the atom is dirty and pending, the epoch advanced and a flush queued
C21_ThrowingComparisonIsAChange ==
    [][ (lastOp'.op = "set" /\ ComparisonThrows(value[lastOp'.target], lastOp'.arg)) =>
            LET a == lastOp'.target
            IN  /\ ~lastOp'.threw
                /\ value'[a] = lastOp'.arg
                /\ isDirty'[a]
                /\ a \in pendingAtoms'
                /\ globalEpoch' = globalEpoch + 1
                /\ lastChangedEpoch'[a] = globalEpoch'
                /\ isBatchScheduled' /\ microtasks' = 1 ]_vars

\* an atom holding an object was set to an object JSON.stringify throws on
C21_Witness ==
    /\ lastOp.op = "set"
    /\ Len(written[lastOp.target]) >= 2
    /\ LET w == written[lastOp.target]
       IN  /\ w[Len(w)] = lastOp.arg
           /\ ComparisonThrows(w[Len(w) - 1], w[Len(w)])
    /\ value[lastOp.target] = lastOp.arg
    /\ isDirty[lastOp.target]

\* C22: an effect execution leaves the active consumer and the consumer stack
\* as they were before it began, so once the outermost execution has finished,
\* between two tasks, there is no active consumer and the stack is empty
C22_NoConsumerOutsideEffects ==
    currentConsumer = Null /\ consumerStack = << >>

\* C23: an atom written with a changed value while a flush is iterating waits
\* for a later flush: when the flush in progress is over the atom is in the
\* new pending set, a flush is queued, and the atom is still dirty, so that the
\* later flush, not the one in progress, notifies its dependents of the write
C23_WriteDuringFlushWaitsForNext ==
    InFlush =>
        \A x \in Atoms :
            written[x] # << >> =>
                x \in pendingAtoms /\ microtasks = 1 /\ isDirty[x]

\* C24: the chain of flushes started by a write ends: whatever the effects
\* write during their runs, a state with an empty pending set and no flush
\* scheduled is reached again and again, and for good once the tasks are over
C24_FlushChainConverges ==
    []<>(pendingAtoms = {} /\ ~isBatchScheduled /\ microtasks = 0)

\* the positions in a step's log at which an atom notifies its dependents
NotifyAt(lg) == {i \in DOMAIN lg : lg[i].ev = "notify"}

\* the end of the part of the log that belongs to the notification at i
SegmentEnd(lg, i) ==
    LET later == {j \in NotifyAt(lg) : j > i}
    IN  IF later = {} THEN Len(lg) + 1
        ELSE CHOOSE j \in later : \A k \in later : j <= k

\* where e is first run by the notification at i (0: it is not run)
FirstRun(lg, i, e) ==
    LET runs == {j \in (i + 1) .. (SegmentEnd(lg, i) - 1) :
                    lg[j].ev = "invoke" /\ lg[j].eff = e}
    IN  IF runs = {} THEN 0 ELSE CHOOSE j \in runs : \A k \in runs : j <= k

\* where e last registered on atom y earlier in the same flush (0: it did not)
LastGet(lg, i, e, y) ==
    LET gets == {j \in 1 .. (i - 1) :
                    lg[j].ev = "get" /\ lg[j].eff = e /\ lg[j].atom = y}
    IN  IF gets = {} THEN 0 ELSE CHOOSE j \in gets : \A k \in gets : j >= k

\* the registration index of e on the atom notified at i is below that of f:
\* the index is the one of the most recent registration, made before the flush
\* (dep) or by a get() earlier in the flush
IndexBelow(lg, dep, i, e, f) ==
    LET y == lg[i].atom
        ge == LastGet(lg, i, e, y)
        gf == LastGet(lg, i, f, y)
    IN  IF ge = 0 /\ gf = 0 THEN dep[y][e] < dep[y][f]
        ELSE IF ge = 0 THEN TRUE
        ELSE IF gf = 0 THEN FALSE
        ELSE ge < gf

\* the atoms are notified in ascending order of epoch
AtomOrder(lg, epoch) ==
    \A i, j \in NotifyAt(lg) : i < j => epoch[lg[i].atom] < epoch[lg[j].atom]

\* the dependents of each notified atom are run in ascending order of index
DependentOrder(lg, dep) ==
    \A i \in NotifyAt(lg) :
        \A e, f \in {lg[i].val[k] : k \in DOMAIN lg[i].val} :
            (IndexBelow(lg, dep, i, e, f) /\ FirstRun(lg, i, e) # 0
                                          /\ FirstRun(lg, i, f) # 0)
                => FirstRun(lg, i, e) < FirstRun(lg, i, f)

\* C25: a flush notifies the atoms of its snapshot in ascending order of the
\* lastChangedEpoch they had when the flush started, and runs the dependents of
\* each atom in ascending order of the index of their most recent registration
C25_FlushOrder ==
    [][ lastOp'.op = "flush" =>
            /\ AtomOrder(log', lastChangedEpoch)
            /\ DependentOrder(log', dependents) ]_vars

\* a flush that notified two atoms, one of them with two dependents that ran
C25_Witness ==
    /\ InFlush
    /\ Cardinality(NotifyAt(log)) >= 2
    /\ \E i \in NotifyAt(log) :
          /\ Len(log[i].val) >= 2
          /\ \A k \in DOMAIN log[i].val : FirstRun(log, i, log[i].val[k]) # 0

\* C26: when diff has matched two nodes of the same type, the new node carries
\* the old node's binding once the patches are applied, and every node of the
\* new tree is bound, ready to be the old tree of the next diff
C26_BindingCarriedToNewTree ==
    (dphase = "patched" /\ IsNode(oldTree) /\ IsNode(newTree)
                        /\ oldTree.type = newTree.type) =>
        /\ newTree.dom = oldTree.dom
        /\ AllBound(newTree)

\* the old and the new tree are same-type parents of distinctly keyed leaves,
\* the old ones bound: a key of both lists is a matched old child
KeyedLevel ==
    /\ IsNode(oldTree) /\ IsNode(newTree)
    /\ oldTree.type = newTree.type
    /\ AllBound(oldTree)
    /\ Len(oldTree.children) >= 1
    /\ DistinctKeys(ChildKeys(oldTree))
    /\ DistinctKeys(ChildKeys(newTree))

\* the number of REMOVE patches of ps for the node n
RemovesOf(ps, n) ==
    Len(SelectSeq(ps, LAMBDA p : p.type = "REMOVE" /\ p.node = n))

\* C27: at one child level the REMOVE patches are exactly those of the old
\* children matched to no new child: a matched old child gets none, an
\* unmatched bound old child exactly one
C27_RemovesAreTheUnmatched ==
    [][ (DiffStep /\ KeyedLevel /\ ~diverged') =>
            \A i \in 1 .. Len(oldTree.children) :
                LET c == oldTree.children[i]
                    matched == \E j \in 1 .. Len(newTree.children) :
                                   newTree.children[j].key = c.key
                IN  RemovesOf(patches', c.dom) = IF matched THEN 0 ELSE 1 ]_vars

\* the target nodes named by the MOVE entries of the REORDER_CHILDREN patches of ps
MovedNodes(ps) ==
    UNION { {ps[i].moves[j].node : j \in 1 .. Len(ps[i].moves)} :
              i \in {k \in 1 .. Len(ps) : ps[k].type = "REORDER_CHILDREN"} }

\* the position in the new list of the child carrying key k
NewIndexOf(k) ==
    CHOOSE j \in 1 .. Len(newTree.children) : newTree.children[j].key = k

\* C28: a match of old-head with new-tail records a move-to-end, a match of
\* old-tail with new-head a move-to-front, so of two kept children whose
\* order is inverted in the new list at least one has a MOVE entry
C28_ReorderedChildrenAreMoved ==
    [][ (DiffStep /\ KeyedLevel /\ ~diverged') =>
            \A i, j \in 1 .. Len(oldTree.children) :
                LET ki == oldTree.children[i].key
                    kj == oldTree.children[j].key
                    kept == {newTree.children[n].key : n \in 1 .. Len(newTree.children)}
                IN  (i < j /\ ki \in kept /\ kj \in kept
                           /\ NewIndexOf(ki) > NewIndexOf(kj)) =>
                        \/ oldTree.children[i].dom \in MovedNodes(patches')
                        \/ oldTree.children[j].dom \in MovedNodes(patches') ]_vars

\* the parent whose child level a patch belongs to; NoDom for the patches
\* that are about one node's props
LevelOf(p) ==
    CASE p.type = "CREATE" -> p.parentDom
      [] p.type = "REORDER_CHILDREN" -> p.parentDom
      [] p.type = "REMOVE" -> document[p.node].parentNode
      [] p.type = "REPLACE" -> document[p.oldNode].parentNode
      [] OTHER -> NoDom

\* C29: for each parent diff emits at most one REORDER_CHILDREN patch; it
\* holds MOVE entries of that parent's children only, and comes after every
\* CREATE, REMOVE and REPLACE patch of the same level
C29_OneReorderPerLevelComingLast ==
    (dphase = "diffed" /\ ~diverged) =>
        \A i \in 1 .. Len(patches) :
            patches[i].type = "REORDER_CHILDREN" =>
                /\ patches[i].moves # << >>
                /\ \A m \in 1 .. Len(patches[i].moves) :
                       /\ patches[i].moves[m].type = "MOVE"
                       /\ document[patches[i].moves[m].node].parentNode
                              = patches[i].parentDom
                /\ \A j \in 1 .. Len(patches) :
                       /\ (j # i /\ patches[j].type = "REORDER_CHILDREN") =>
                              patches[j].parentDom # patches[i].parentDom
                       /\ (patches[j].type \in {"CREATE", "REMOVE", "REPLACE"}
                             /\ LevelOf(patches[j]) = patches[i].parentDom) => j < i

\* diff has returned a REORDER_CHILDREN patch together with a CREATE and a
\* REMOVE patch of the same level
C29_Witness ==
    /\ dphase = "diffed" /\ ~diverged
    /\ \E i, j, k \in 1 .. Len(patches) :
           /\ patches[i].type = "REORDER_CHILDREN"
           /\ patches[j].type = "CREATE" /\ LevelOf(patches[j]) = patches[i].parentDom
           /\ patches[k].type = "REMOVE" /\ LevelOf(patches[k]) = patches[i].parentDom

\* C30: diff(old, null) of a bound old node returns exactly the REMOVE of the
\* old node's binding, diff(null, new) exactly the CREATE of the new node
\* under the parent binding, diff(null, null) nothing; none of them looks at
\* the children
C30_NullSidesGiveOnePatch ==
    (dphase = "diffed" /\ (~IsNode(oldTree) \/ ~IsNode(newTree))) =>
        /\ ~diverged
        /\ (IsNode(oldTree) /\ oldTree.dom # NoDom) =>
               patches = << [type |-> "REMOVE", node |-> oldTree.dom] >>
        /\ IsNode(newTree) =>
               patches = << [type |-> "CREATE", path |-> << >>,
                             parentDom |-> Container] >>
        /\ (~IsNode(oldTree) /\ ~IsNode(newTree)) => patches = << >>

\* diff has run on a bound old node with bound children and no new node
C30_Witness ==
    /\ dphase = "diffed"
    /\ ~IsNode(newTree)
    /\ AllBound(oldTree)
    /\ oldTree.children # << >>
    /\ patches # << >>

\* the old and the new tree are same-type parents of leaves without keys,
\* the old ones bound
UnkeyedLevel ==
    /\ IsNode(oldTree) /\ IsNode(newTree)
    /\ oldTree.type = newTree.type
    /\ AllBound(oldTree)
    /\ \A i \in 1 .. Len(oldTree.children) :
           oldTree.children[i].key = NoKey /\ oldTree.children[i].children = << >>
    /\ \A i \in 1 .. Len(newTree.children) :
           newTree.children[i].key = NoKey /\ newTree.children[i].children = << >>
    /\ Len(oldTree.children) + Len(newTree.children) >= 1

\* C31: for two child lists without keys diff is positional: old child i is
\* diffed against new child i below the shorter length, each new child beyond
\* the old length gets a CREATE, each old child beyond the new length gets a
\* REMOVE and no other old child does
C31_UnkeyedDiffIsPositional ==
    [][ (DiffStep /\ UnkeyedLevel) =>
            LET o == Len(oldTree.children)
                n == Len(newTree.children)
            IN  /\ ~diverged'
                /\ \A i \in 1 .. n :
                       (\E k \in 1 .. Len(patches') :
                            patches'[k].type = "CREATE" /\ patches'[k].path = << i >>)
                           <=> i > o
                /\ \A i \in 1 .. o :
                       /\ RemovesOf(patches', oldTree.children[i].dom)
                              = IF i > n THEN 1 ELSE 0
                       /\ (i <= n /\ oldTree.children[i].type # newTree.children[i].type) =>
                              \E k \in 1 .. Len(patches') :
                                  /\ patches'[k].type = "REPLACE"
                                  /\ patches'[k].oldNode = oldTree.children[i].dom
                                  /\ patches'[k].path = << i >> ]_vars

\* the old and the new tree are same-type parents of keyed leaves, the old
\* ones bound, and two children of one of the lists carry the same key
DuplicateKeyLevel ==
    /\ IsNode(oldTree) /\ IsNode(newTree)
    /\ oldTree.type = newTree.type
    /\ AllBound(oldTree)
    /\ \A i \in 1 .. Len(oldTree.children) :
           oldTree.children[i].key # NoKey /\ oldTree.children[i].children = << >>
    /\ \A i \in 1 .. Len(newTree.children) :
           newTree.children[i].key # NoKey /\ newTree.children[i].children = << >>
    /\ ~(DistinctKeys(ChildKeys(oldTree)) /\ DistinctKeys(ChildKeys(newTree)))

\* C32: with two children of one level carrying the same key diff falls back
\* to last-write-wins and no old child is matched to more than one new child:
\* every new child is matched or created, so when diff returns, the new
\* children that got no CREATE are at most as many as the old children
C32_DuplicateKeyMatchesOnce ==
    [][ (DiffStep /\ DuplicateKeyLevel /\ ~diverged') =>
            Len(newTree.children) - Len(OfType(patches', "CREATE"))
                <= Len(oldTree.children) ]_vars

\* the order of the children of the parent the REORDER_CHILDREN patch names
ChildOrder(doc) == doc[patches[1].parentDom].childNodes

\* C33: applying a REORDER_CHILDREN patch a second time leaves the parent's
\* child order exactly as the first application left it, for every move list
C33_ReorderIsIdempotent ==
    [][ (dphase = "reorder-1" /\ dphase' = "reorder-2") =>
            ChildOrder(document') = ChildOrder(document) ]_vars

\* the smaller of two numbers
Min(x, y) == IF x < y THEN x ELSE y

\* C34: after the applier has processed one move of a child to an index, the
\* child sits at that index among the parent's children, or last when the
\* index is past the end, whether it went towards the front or the end
C34_MovedChildSitsAtIndex ==
    [][ (dphase = "reorder-0" /\ dphase' = "reorder-1"
           /\ Len(patches[1].moves) = 1
           /\ document[patches[1].moves[1].node].parentNode = patches[1].parentDom) =>
            IndexOf(ChildOrder(document'), patches[1].moves[1].node)
                = Min(patches[1].moves[1].index, Len(ChildOrder(document'))) ]_vars

\* the elements of a sequence
Elements(seq) == {seq[i] : i \in 1 .. Len(seq)}

\* C35: once a CREATE or a REPLACE patch is applied, the patch's new VNode
\* and all its descendants are bound, the node created for it is a child in
\* the target, and the old node of a REPLACE is no longer in the target
C35_CreateAndReplaceBind ==
    dphase = "patched" =>
        \A i \in 1 .. Len(patches) :
            patches[i].type \in {"CREATE", "REPLACE"} =>
                LET v == NodeAt(newTree, patches[i].path)
                IN  /\ AllBound(v)
                    /\ document[v.dom].parentNode # NoDom
                    /\ v.dom \in Elements(document[document[v.dom].parentNode].childNodes)
                    /\ patches[i].type = "CREATE" =>
                           document[v.dom].parentNode = patches[i].parentDom
                    /\ patches[i].type = "REPLACE" =>
                           /\ document[patches[i].oldNode].parentNode = NoDom
                           /\ \A n \in 1 .. Len(document) :
                                  patches[i].oldNode \notin Elements(document[n].childNodes)

\* C36: a CREATE patch for the new child at index i of its parent's new child
\* list, applied with the rest of the patch list, leaves the created node at
\* index i among the children of the parent's target node
C36_CreatedChildSitsAtItsIndex ==
    dphase = "patched" =>
        \A k \in 1 .. Len(patches) :
            (patches[k].type = "CREATE" /\ patches[k].path # << >>) =>
                LET v == NodeAt(newTree, patches[k].path)
                    i == patches[k].path[Len(patches[k].path)]
                IN  /\ v.dom # NoDom
                    /\ IndexOf(document[patches[k].parentDom].childNodes, v.dom) = i

\* C37: between turns every atom whose dirty flag is set is in the pending
\* set, and while the pending set is not empty a flush is queued: a change
\* that was not notified yet always has a flush to come, also after a flush
\* in which an effect threw
C37_DirtyAtomsArePending ==
    /\ \A a \in Atoms : isDirty[a] => a \in pendingAtoms
    /\ pendingAtoms # {} => (isBatchScheduled /\ microtasks >= 1)

\* C38: once a flush has notified an atom's dependents, no later flush
\* notifies them again unless the atom was written with a changed value in
\* between: since its last value-changing write an atom is notified at most
\* once, also when a later pending set still holds it
C38_NoDuplicateNotification ==
    \A a \in Atoms : notifiedSince[a] <= 1

\* a flush found in its snapshot an atom that an earlier flush had already
\* notified for its last write, and did not notify it again
C38_Witness ==
    /\ InFlush
    /\ \E a \in Snapshot :
           /\ ~lastOp.wasDirty[a]
           /\ notifiedSince[a] = 1
           /\ dependents[a] # << >>
           /\ \A i \in DOMAIN log : log[i].ev = "notify" => log[i].atom # a

\* C39: dependency edges are bidirectional in every reachable state: an
\* effect is in an atom's dependents map exactly when the atom is in the
\* effect's dependency set
C39_EdgesAreBidirectional ==
    \A e \in Effects : \A a \in Atoms :
        e \in DOMAIN dependents[a] <=> a \in deps[e]

\* a flush ran an effect again, which registered its edges anew, and the run
\* disposed the other effect, which was subscribed when the flush started
C39_Witness ==
    /\ InFlush
    /\ \E e \in Effects : \E a \in Atoms :
           /\ Invoked(e) # {}
           /\ deps[e] # {}
           /\ Other(e) \in lastOp.subs[a]
           /\ ~lastOp.wasDisposed[Other(e)]
           /\ isDisposed[Other(e)]

\* the atoms a step stamped: written with a changed value, or carrying a new stamp
Stamped == {a \in Atoms :
               \/ lastChangedEpoch'[a] # lastChangedEpoch[a]
               \/ Len(written'[a]) > Len(written[a])
               \/ (lastOp'.op = "flush" /\ written'[a] # << >>)}

\* the registrations a step made and left in place: <<atom, effect>>
Registered == {p \in Atoms \X Effects :
                  /\ p[2] \in DOMAIN dependents'[p[1]]
                  /\ \/ p[2] \notin DOMAIN dependents[p[1]]
                     \/ dependents'[p[1]][p[2]] # dependents[p[1]][p[2]]}

\* C40: the global epoch counter never decreases; a value-changing set()
\* stamps the atom above every stamp given before and a registration gets an
\* index above every index given before (all of them lie below the counter),
\* so no two writes share a stamp and no two registrations share an index
C40_EpochsAreMonotonic ==
    [][ /\ globalEpoch' >= globalEpoch
        /\ \A a \in Stamped :
               /\ lastChangedEpoch'[a] > globalEpoch
               /\ lastChangedEpoch'[a] > lastChangedEpoch[a]
        /\ \A a \in Atoms : lastChangedEpoch'[a] <= globalEpoch'
        /\ \A a, b \in Atoms :
               (a # b /\ lastChangedEpoch'[a] # 0) =>
                   lastChangedEpoch'[a] # lastChangedEpoch'[b]
        /\ \A p \in Registered : dependents'[p[1]][p[2]] >= globalEpoch
        /\ \A p \in Atoms \X Effects :
               p[2] \in DOMAIN dependents'[p[1]] =>
                   /\ dependents'[p[1]][p[2]] < globalEpoch'
                   /\ \A q \in Atoms \X Effects :
                          (q # p /\ q[2] \in DOMAIN dependents'[q[1]]) =>
                              dependents'[q[1]][q[2]] # dependents'[p[1]][p[2]] ]_vars

\* a flush ran an effect that registered with both atoms and wrote one of
\* them: two indices and a stamp given in one step
C40_Witness ==
    /\ InFlush
    /\ \E e \in Effects :
           /\ Invoked(e) # {}
           /\ \A a \in Atoms : e \in DOMAIN dependents[a]
           /\ \E a \in Atoms : written[a] # << >>

====
